---- MODULE Spec2Model ----
(***************************************************************************)
(* mudlib/src/import.rs: import_from_world converts a loaded DoW World     *)
(* into entities of an EntityWorld.  The model follows the function loop   *)
(* by loop: the room loop, the leads-to pass, the landmark loop, the four  *)
(* template tables and the interpreter of the areas' reset commands.       *)
(*                                                                         *)
(* Rust values are written as follows.  Option: None is <<>>, Some(x) is   *)
(* <<x>>.  A Vec is a sequence; Rust index k is element k + 1.  A HashMap  *)
(* is a function on the set of its keys.  A String is a sequence of        *)
(* one-character strings, so that split_whitespace is computed.  A panic   *)
(* (expect, unwrap, an index out of range, a missing HashMap key) ends the *)
(* run in pc = "aborted" with the message in panic; the EntityWorld is a   *)
(* &mut argument, so what was inserted before the panic stays in it.       *)
(***************************************************************************)
EXTENDS Integers, Sequences, FiniteSets, TLC

\* ------------------------------------------------------------------ bounds
\* reset commands read over all areas
MaxCmds == 3
\* areas of the world
MaxAreas == 2
\* extra descriptions of an object (import_object_components)
MaxExtra == 2

\* ------------------------------------------------------------------ Option
None == <<>>
Some(x) == <<x>>
IsSome(o) == o # <<>>
Unwrap(o) == o[1]

\* ------------------------------------------------------------------ Vec, HashMap
\* vec[k] of Rust (index from 0); callers check InBounds first
At(vec, k) == vec[k + 1]
InBounds(vec, k) == k < Len(vec)
\* Vec::get
Get(vec, k) == IF InBounds(vec, k) THEN Some(vec[k + 1]) ELSE None
\* vec[k] = x
SetAt(vec, k, x) == [vec EXCEPT ![k + 1] = x]
\* Vec::resize(n, None) of an empty Vec
Resized(n) == [k \in 1..n |-> None]

EmptyMap == [k \in {} |-> 0]
\* HashMap::insert
MapInsert(m, key, val) ==
    [k \in (DOMAIN m) \cup {key} |-> IF k = key THEN val ELSE m[k]]

\* sequences over S of length at most n
SeqsUpTo(S, n) == UNION {[1..k -> S] : k \in 0..n}

\* ------------------------------------------------------------------ strings
\* str::split_whitespace: the maximal runs of non-space characters, in order
RECURSIVE SplitFrom(_, _, _)
SplitFrom(s, cur, acc) ==
    IF s = <<>>
    THEN IF cur = <<>> THEN acc ELSE Append(acc, cur)
    ELSE IF Head(s) = " "
         THEN SplitFrom(Tail(s), <<>>, IF cur = <<>> THEN acc ELSE Append(acc, cur))
         ELSE SplitFrom(Tail(s), Append(cur, Head(s)), acc)

split_whitespace(s) == SplitFrom(s, <<>>, <<>>)

\* ------------------------------------------------------------------ components
\* Components, reduced to the fields the import decides and later reads:
\* general.vnum, general.entity_type, general.equipped, the act_info keyword
\* and the external description.
Components(vnum, entity_type, keyword, external) ==
    [vnum |-> vnum, entity_type |-> entity_type, equipped |-> None,
     keyword |-> keyword, external |-> external]

\* the Components of a room
room_components(room) ==
    Components(room.vnum, "Room", room.name, <<"It's a room called", room.name>>)

\* the Components of an exit of a room
exit_components(exit) ==
    Components(0, "Exit", exit.name,
               IF IsSome(exit.description) THEN Unwrap(exit.description)
               ELSE <<"You don't see anything special in that direction.">>)

\* the Components of an extra description of a room
extra_description_components(extra_description) ==
    Components(0, "ExtraDescription", extra_description.keyword,
               extra_description.description)

\* keywords_match: every whitespace token of the extra description's keyword
\* is a whitespace token of the object's name
keywords_match(object, extra_description) ==
    \A i \in DOMAIN split_whitespace(extra_description.keyword) :
        \E j \in DOMAIN split_whitespace(object.name) :
            split_whitespace(object.name)[j] = split_whitespace(extra_description.keyword)[i]

\* the loop over object.extra_descriptions: <<main_description, children>>
RECURSIVE ObjectExtraLoop(_, _, _, _)
ObjectExtraLoop(object, rest, main_description, children) ==
    IF rest = <<>> THEN <<main_description, children>>
    ELSE IF keywords_match(object, Head(rest))
         THEN ObjectExtraLoop(object, Tail(rest), Some(Head(rest).description), children)
         ELSE ObjectExtraLoop(object, Tail(rest), main_description,
                  Append(children,
                         Components(0, "ExtraDescription", Head(rest).keyword,
                                    Head(rest).description)))

\* external: the main description when one was set, else object.description
ObjectExternal(object, main_description) ==
    IF IsSome(main_description) THEN Unwrap(main_description) ELSE object.description

import_object_components(object) ==
    LET r == ObjectExtraLoop(object, object.extra_descriptions, None, <<>>)
    IN  <<Components(object.vnum, "Object", object.name, ObjectExternal(object, r[1])),
          r[2]>>

\* one child per (trigger, vnum) pair of the mobile; None when
\* world.mobprogs.get(vnum) fails ("Triggered mobprog should exist")
RECURSIVE MobileProgLoop(_, _, _)
MobileProgLoop(mobprogs, triggers, acc) ==
    IF triggers = <<>> THEN Some(acc)
    ELSE LET mobprog == Get(mobprogs, Head(triggers)[2])
         IN  IF ~IsSome(mobprog) THEN None
             ELSE MobileProgLoop(mobprogs, Tail(triggers),
                      Append(acc, Components(Unwrap(mobprog).vnum, "MobProg", <<"mobprog">>,
                                             <<"It's a mobprog", Unwrap(mobprog).code>>)))

\* Some(<<components, mobprogs>>), or None when it panics
import_mobile_components(mobile, w) ==
    LET progs == MobileProgLoop(w.mobprogs, mobile.mobprog_triggers, <<>>)
    IN  IF ~IsSome(progs) THEN None
        ELSE Some(<<Components(mobile.vnum, "Mobile", mobile.name, mobile.description),
                    Unwrap(progs)>>)

\* ------------------------------------------------------------------ the World
\* load.rs is not part of the module under study.  The tables of a World are
\* dense and indexed by vnum: slot k holds the record with vnum k, or a
\* default record, whose vnum is 0 (slot 0 always does).
DefaultRoom == [vnum |-> 0, name |-> <<>>, exits |-> <<>>, extra_descriptions |-> <<>>]
DefaultObject == [vnum |-> 0, name |-> <<>>, description |-> <<>>, extra_descriptions |-> <<>>]
DefaultMobile == [vnum |-> 0, name |-> <<>>, description |-> <<>>, mobprog_triggers |-> <<>>]
DefaultMobProg == [vnum |-> 0, code |-> <<>>]

SetMax(S) == CHOOSE x \in S : \A y \in S : y <= x

\* the dense table of the records rec[k], k \in S
DenseTable(S, rec, default) ==
    IF S = {} THEN <<>>
    ELSE [k \in 1..(SetMax(S) + 1) |-> IF (k - 1) \in S THEN rec[k - 1] ELSE default]

DigitChar == <<"1", "2", "3", "4", "5", "6", "7", "8", "9">>
Directions == <<"north", "east", "south", "west">>
\* where the exits of a room may lead: to slot 0, to room 1, to vnum 7,
\* which no room has
ExitDests == {<<>>, <<0>>, <<1>>, <<7>>, <<1, 7>>, <<7, 0>>}
ExitLists ==
    {[k \in DOMAIN ds |-> [vnum |-> ds[k], name |-> Directions[k], description |-> None]] :
        ds \in ExitDests}

\* the landmark rooms all defined, or one of them missing
RoomVnumSets == {(1..6) \ {m} : m \in 0..6}

\* room 1 has the exits, room 2 an extra description
RoomRecord(k, exits) ==
    [vnum |-> k, name |-> <<"r", DigitChar[k]>>,
     exits |-> IF k = 1 THEN exits ELSE <<>>,
     extra_descriptions |->
        IF k = 2 THEN <<[keyword |-> <<"s", "i", "g", "n">>, description |-> <<"x">>]>>
        ELSE <<>>]

\* object 1: its name has the tokens a and b; its first extra description
\* matches the name, its second does not.  Object 8 has no slot in a table
\* of rooms.len() entries.
ObjectRecord(k) ==
    [vnum |-> k, name |-> <<"a", " ", "b">>, description |-> <<"o">>,
     extra_descriptions |-> <<[keyword |-> <<"a">>, description |-> <<"m">>],
                              [keyword |-> <<"c">>, description |-> <<"n">>]>>]
ObjectVnumSets == {{1}, {1, 8}}

\* mobile 1 has one trigger, of mobprog 1
MobileRecord(k) ==
    [vnum |-> k, name |-> <<"g">>, description |-> <<"d">>,
     mobprog_triggers |-> <<<<"Greet", 1>>>>]
MobProgRecord(k) == [vnum |-> k, code |-> <<"p">>]

Worlds ==
    {[rooms |-> DenseTable(R, [k \in R |-> RoomRecord(k, exits)], DefaultRoom),
      objects |-> DenseTable(O, [k \in O |-> ObjectRecord(k)], DefaultObject),
      mobiles |-> DenseTable({1}, [k \in {1} |-> MobileRecord(k)], DefaultMobile),
      mobprogs |-> DenseTable({1}, [k \in {1} |-> MobProgRecord(k)], DefaultMobProg)] :
        R \in RoomVnumSets, exits \in ExitLists, O \in ObjectVnumSets}

\* the vnums and fields a reset command may carry: a defined vnum (1), an
\* undefined one (2), one beyond the tables (9)
MobVnums == {1, 2, 9}
ObjVnums == {1, 2}
ContainerVnums == {1}
ResetRooms == {1, 2, 9}
\* every limit is 1: a second spawn of a vnum already exceeds it
Limits == {1}
Locations == {"wield"}

\* the arguments of import_object_components
ObjectNames == {<<>>, <<"a">>, <<"a", "b">>, <<"a", " ", "b">>}
Keywords == {<<" ">>, <<"a">>, <<"b">>, <<"c">>, <<"a", "b">>, <<"b", " ", "a">>}
Objects ==
    {[vnum |-> 1, name |-> n, description |-> <<"o">>,
      extra_descriptions |->
        [k \in DOMAIN ks |-> [keyword |-> ks[k], description |-> <<"d", DigitChar[k]>>]]] :
        n \in ObjectNames, ks \in SeqsUpTo(Keywords, MaxExtra)}

\* the landmarks of import_from_world; the vnums 1, 2, 3000, 7371, 23611,
\* 27003 are renumbered 1..6 in their order, to keep the room table small
landmarks ==
    << <<"gnomehill", 5>>, <<"mekali", 3>>, <<"dzagari", 6>>,
       <<"mudschool", 4>>, <<"void", 1>>, <<"limbo", 2>> >>

\* EntityWorld::world_entity_id
world_entity_id == 0
\* EntityInfo::permanent_entity_id
permanent_entity_id(id) == [permanent |-> id]

\* ------------------------------------------------------------------ state
VARIABLES
    world,            \* the World argument
    pc,               \* the loop import_from_world is in; "done", "aborted"
    panic,            \* the panic message, Some(msg), once aborted
    i,                \* the index of the running for loop
    entities,         \* EntityWorld: entity id -> [parent, components...]
    leads_to,         \* EntityWorld: exit id -> room id (set_leads_to)
    ew_landmarks,     \* EntityWorld: landmark name -> room id (add_landmark)
    room_vnum_to_id,  \* HashMap
    exit_leads_to,    \* HashMap
    pending,          \* the keys of exit_leads_to its for loop has yet to visit
    vnum_templates,   \* VnumTemplates
    area_resets,      \* the reset commands read so far, by area
    last_mobile_id,   \* Option<EntityId>
    spawned_by,       \* history: id of a spawned mobile or object -> <<area, index>>
    areas,            \* the Vec<Area> returned
    object,           \* the argument of import_object_components (SpecObject)
    components        \* its result (SpecObject)

vars == <<world, pc, panic, i, entities, leads_to, ew_landmarks, room_vnum_to_id,
          exit_leads_to, pending, vnum_templates, area_resets, last_mobile_id,
          spawned_by, areas, object, components>>

objvars == <<object, components>>

EmptyTemplates ==
    [vnum_to_room_entity |-> <<>>, vnum_to_mobprog |-> <<>>,
     object_components |-> <<>>, mobile_components |-> <<>>]

Init ==
    /\ world \in Worlds
    /\ pc = "rooms"
    /\ panic = None
    /\ i = 0
    /\ entities = <<>>
    /\ leads_to = EmptyMap
    /\ ew_landmarks = EmptyMap
    /\ room_vnum_to_id = EmptyMap
    /\ exit_leads_to = EmptyMap
    /\ pending = {}
    /\ vnum_templates = EmptyTemplates
    /\ area_resets = <<>>
    /\ last_mobile_id = None
    /\ spawned_by = EmptyMap
    /\ areas = None
    /\ object = None
    /\ components = None

\* EntityWorld::insert_entity: the new entity's id is Len(es) + 1
insert_entity(es, parent, c) ==
    Append(es, [parent |-> parent, vnum |-> c.vnum, entity_type |-> c.entity_type,
                equipped |-> c.equipped, keyword |-> c.keyword, external |-> c.external])

\* insert_entity of each of cs under the same parent
RECURSIVE insert_all(_, _, _)
insert_all(es, parent, cs) ==
    IF cs = <<>> THEN es
    ELSE insert_all(insert_entity(es, parent, Head(cs)), parent, Tail(cs))

\* a panic: the run ends, what was written to the EntityWorld stays
Abort(msg) ==
    /\ pc' = "aborted"
    /\ panic' = Some(msg)
    /\ UNCHANGED <<world, i, entities, leads_to, ew_landmarks, room_vnum_to_id,
                   exit_leads_to, pending, vnum_templates, area_resets,
                   last_mobile_id, spawned_by, areas, objvars>>

\* ------------------------------------------------------------------ the room loop
\* the components of the exits of a room
ExitComponents(room) == [k \in DOMAIN room.exits |-> exit_components(room.exits[k])]
ExtraComponents(room) ==
    [k \in DOMAIN room.extra_descriptions |->
        extra_description_components(room.extra_descriptions[k])]

\* variant of RecordedRoomId: the id of the entity inserted last is recorded
RecordedRoomId_Last(room_id, es) == Len(es)

\* the id the room loop records against the room's vnum; es holds the room,
\* its exits and its extra descriptions
RecordedRoomId(room_id, es) == room_id

\* one iteration of for room in &world.rooms
RoomLoop ==
    /\ pc = "rooms"
    /\ InBounds(world.rooms, i)
    /\ LET room == At(world.rooms, i)
           room_id == Len(entities) + 1
           with_room == insert_entity(entities, world_entity_id, room_components(room))
           with_exits == insert_all(with_room, room_id, ExitComponents(room))
           with_extras == insert_all(with_exits, room_id, ExtraComponents(room))
       IN  /\ entities' = with_extras
           /\ exit_leads_to' =
                [e \in (DOMAIN exit_leads_to) \cup {room_id + k : k \in DOMAIN room.exits} |->
                    IF e \in DOMAIN exit_leads_to THEN exit_leads_to[e]
                    ELSE room.exits[e - room_id].vnum]
           /\ room_vnum_to_id' =
                MapInsert(room_vnum_to_id, room.vnum, RecordedRoomId(room_id, with_extras))
    /\ i' = i + 1
    /\ UNCHANGED <<world, pc, panic, leads_to, ew_landmarks, pending, vnum_templates,
                   area_resets, last_mobile_id, spawned_by, areas, objvars>>

RoomLoopEnd ==
    /\ pc = "rooms"
    /\ ~InBounds(world.rooms, i)
    /\ pc' = "leads_to"
    /\ pending' = DOMAIN exit_leads_to
    /\ UNCHANGED <<world, panic, i, entities, leads_to, ew_landmarks, room_vnum_to_id,
                   exit_leads_to, vnum_templates, area_resets, last_mobile_id,
                   spawned_by, areas, objvars>>

\* ------------------------------------------------------------------ the leads-to pass
\* variant of LeadsToTarget: an unknown vnum falls back to the world entity
LeadsToTarget_Root(vnum) ==
    IF vnum \in DOMAIN room_vnum_to_id THEN Some(room_vnum_to_id[vnum])
    ELSE Some(world_entity_id)

\* room_vnum_to_id.get(&leads_to)
LeadsToTarget(vnum) ==
    IF vnum \in DOMAIN room_vnum_to_id THEN Some(room_vnum_to_id[vnum]) ELSE None

\* one iteration of for (exit_id, leads_to) in exit_leads_to; a HashMap is
\* iterated in no particular order
SetLeadsTo ==
    /\ pc = "leads_to"
    /\ \E exit_id \in pending :
        /\ pending' = pending \ {exit_id}
        /\ leads_to' =
             IF IsSome(LeadsToTarget(exit_leads_to[exit_id]))
             THEN MapInsert(leads_to, exit_id, Unwrap(LeadsToTarget(exit_leads_to[exit_id])))
             ELSE leads_to
    /\ UNCHANGED <<world, pc, panic, i, entities, ew_landmarks, room_vnum_to_id,
                   exit_leads_to, vnum_templates, area_resets, last_mobile_id,
                   spawned_by, areas, objvars>>

SetLeadsToEnd ==
    /\ pc = "leads_to"
    /\ pending = {}
    /\ pc' = "landmarks"
    /\ i' = 0
    /\ UNCHANGED <<world, panic, entities, leads_to, ew_landmarks, room_vnum_to_id,
                   exit_leads_to, pending, vnum_templates, area_resets, last_mobile_id,
                   spawned_by, areas, objvars>>

\* ------------------------------------------------------------------ the landmarks
\* variant of AddLandmark: a landmark whose room is not found is passed over
AddLandmark_Skip ==
    /\ pc = "landmarks"
    /\ InBounds(landmarks, i)
    /\ ew_landmarks' =
         IF At(landmarks, i)[2] \in DOMAIN room_vnum_to_id
         THEN MapInsert(ew_landmarks, At(landmarks, i)[1], room_vnum_to_id[At(landmarks, i)[2]])
         ELSE ew_landmarks
    /\ i' = i + 1
    /\ UNCHANGED <<world, pc, panic, entities, leads_to, room_vnum_to_id,
                   exit_leads_to, pending, vnum_templates, area_resets,
                   last_mobile_id, spawned_by, areas, objvars>>

\* one iteration of for (landmark, vnum) in landmarks
AddLandmark ==
    /\ pc = "landmarks"
    /\ InBounds(landmarks, i)
    /\ LET landmark == At(landmarks, i)[1]
           vnum == At(landmarks, i)[2]
       IN  IF vnum \in DOMAIN room_vnum_to_id
           THEN /\ ew_landmarks' = MapInsert(ew_landmarks, landmark, room_vnum_to_id[vnum])
                /\ i' = i + 1
                /\ UNCHANGED <<world, pc, panic, entities, leads_to, room_vnum_to_id,
                               exit_leads_to, pending, vnum_templates, area_resets,
                               last_mobile_id, spawned_by, areas, objvars>>
           ELSE Abort("GnomeHill landmark room not found.")

\* the landmarks done: the four tables are resized to world.rooms.len()
AddLandmarkEnd ==
    /\ pc = "landmarks"
    /\ ~InBounds(landmarks, i)
    /\ pc' = "room_table"
    /\ vnum_templates' =
         [vnum_to_room_entity |-> Resized(Len(world.rooms)),
          vnum_to_mobprog |-> Resized(Len(world.rooms)),
          object_components |-> Resized(Len(world.rooms)),
          mobile_components |-> Resized(Len(world.rooms))]
    /\ UNCHANGED <<world, panic, i, entities, leads_to, ew_landmarks, room_vnum_to_id,
                   exit_leads_to, pending, area_resets, last_mobile_id, spawned_by,
                   areas, objvars>>

\* ------------------------------------------------------------------ the tables
\* for room in &world.rooms: Some(table), or None when an index is out of range
RECURSIVE RoomTableLoop(_, _)
RoomTableLoop(rooms, table) ==
    IF rooms = <<>> THEN Some(table)
    ELSE IF Head(rooms).vnum = 0 THEN RoomTableLoop(Tail(rooms), table)
    ELSE IF ~InBounds(table, Head(rooms).vnum) THEN None
    ELSE RoomTableLoop(Tail(rooms),
             SetAt(table, Head(rooms).vnum,
                   Some(permanent_entity_id(room_vnum_to_id[Head(rooms).vnum]))))

\* for object in &world.objects
RECURSIVE ObjectTableLoop(_, _)
ObjectTableLoop(objects, table) ==
    IF objects = <<>> THEN Some(table)
    ELSE IF Head(objects).vnum = 0 THEN ObjectTableLoop(Tail(objects), table)
    ELSE IF ~InBounds(table, Head(objects).vnum) THEN None
    ELSE ObjectTableLoop(Tail(objects),
             SetAt(table, Head(objects).vnum, Some(import_object_components(Head(objects)))))

\* for mobile in &world.mobiles: [panic, table]
RECURSIVE MobileTableLoop(_, _)
MobileTableLoop(mobiles, table) ==
    IF mobiles = <<>> THEN [panic |-> None, table |-> table]
    ELSE IF Head(mobiles).vnum = 0 THEN MobileTableLoop(Tail(mobiles), table)
    ELSE IF ~IsSome(import_mobile_components(Head(mobiles), world))
         THEN [panic |-> Some("Triggered mobprog should exist"), table |-> table]
    ELSE IF ~InBounds(table, Head(mobiles).vnum)
         THEN [panic |-> Some("index out of bounds"), table |-> table]
    ELSE MobileTableLoop(Tail(mobiles),
             SetAt(table, Head(mobiles).vnum,
                   import_mobile_components(Head(mobiles), world)))

\* for mobprog in &world.mobprogs: every record is stored, its vnum unchecked
RECURSIVE MobprogTableLoop(_, _)
MobprogTableLoop(mobprogs, table) ==
    IF mobprogs = <<>> THEN Some(table)
    ELSE IF ~InBounds(table, Head(mobprogs).vnum) THEN None
    ELSE MobprogTableLoop(Tail(mobprogs),
             SetAt(table, Head(mobprogs).vnum, Some(Head(mobprogs).code)))

TableUnchanged ==
    UNCHANGED <<world, panic, i, entities, leads_to, ew_landmarks, room_vnum_to_id,
                exit_leads_to, pending, area_resets, last_mobile_id, spawned_by,
                areas, objvars>>

RoomTable ==
    /\ pc = "room_table"
    /\ LET t == RoomTableLoop(world.rooms, vnum_templates.vnum_to_room_entity)
       IN  IF IsSome(t)
           THEN /\ vnum_templates' = [vnum_templates EXCEPT !.vnum_to_room_entity = Unwrap(t)]
                /\ pc' = "object_table"
                /\ TableUnchanged
           ELSE Abort("index out of bounds")

ObjectTable ==
    /\ pc = "object_table"
    /\ LET t == ObjectTableLoop(world.objects, vnum_templates.object_components)
       IN  IF IsSome(t)
           THEN /\ vnum_templates' = [vnum_templates EXCEPT !.object_components = Unwrap(t)]
                /\ pc' = "mobile_table"
                /\ TableUnchanged
           ELSE Abort("index out of bounds")

MobileTable ==
    /\ pc = "mobile_table"
    /\ LET t == MobileTableLoop(world.mobiles, vnum_templates.mobile_components)
       IN  IF ~IsSome(t.panic)
           THEN /\ vnum_templates' = [vnum_templates EXCEPT !.mobile_components = t.table]
                /\ pc' = "mobprog_table"
                /\ TableUnchanged
           ELSE Abort(Unwrap(t.panic))

MobprogTable ==
    /\ pc = "mobprog_table"
    /\ LET t == MobprogTableLoop(world.mobprogs, vnum_templates.vnum_to_mobprog)
       IN  IF IsSome(t)
           THEN /\ vnum_templates' = [vnum_templates EXCEPT !.vnum_to_mobprog = Unwrap(t)]
                /\ pc' = "resets"
                /\ TableUnchanged
           ELSE Abort("index out of bounds")

\* ------------------------------------------------------------------ the reset commands
RECURSIVE SumLen(_)
SumLen(ss) == IF ss = <<>> THEN 0 ELSE Len(Head(ss)) + SumLen(Tail(ss))

\* a reset command of the running area can be read
CanRead ==
    /\ pc = "resets"
    /\ Len(area_resets) >= 1
    /\ SumLen(area_resets) < MaxCmds

\* the command read is the next of the running area's list
Read(cmd) == [area_resets EXCEPT ![Len(area_resets)] = Append(@, cmd)]

\* <<area, index>> of the command being read
Reading == <<Len(area_resets), Len(area_resets[Len(area_resets)]) + 1>>

\* variant of AreaCursor: the cursor declared outside the loop over the areas
AreaCursor_Kept == last_mobile_id

\* let mut last_mobile_id = None, at the head of each area's list
AreaCursor == None

\* vnum_templates.mobile_components[m_num].as_ref().expect(..)
MobileLookup(m_num) ==
    IF ~InBounds(vnum_templates.mobile_components, m_num)
    THEN [panic |-> Some("index out of bounds"), value |-> None]
    ELSE IF ~IsSome(At(vnum_templates.mobile_components, m_num))
    THEN [panic |-> Some("Mobile with vnum does not exist"), value |-> None]
    ELSE [panic |-> None, value |-> At(vnum_templates.mobile_components, m_num)]

\* vnum_templates.object_components[vnum].as_ref().expect(..)
ObjectLookup(vnum) ==
    IF ~InBounds(vnum_templates.object_components, vnum)
    THEN [panic |-> Some("index out of bounds"), value |-> None]
    ELSE IF ~IsSome(At(vnum_templates.object_components, vnum))
    THEN [panic |-> Some("Object with vnum does not exist"), value |-> None]
    ELSE [panic |-> None, value |-> At(vnum_templates.object_components, vnum)]

\* load_object: [panic, entities, object_id]
load_object(vnum, container, es) ==
    LET t == ObjectLookup(vnum)
        object_id == Len(es) + 1
    IN  IF IsSome(t.panic) THEN [panic |-> t.panic, entities |-> es, object_id |-> 0]
        ELSE [panic |-> None,
              entities |-> insert_all(insert_entity(es, container, Unwrap(t.value)[1]),
                                      object_id, Unwrap(t.value)[2]),
              object_id |-> object_id]

\* variant of MobLimitReached: room_limit is honoured
MobLimitReached_RoomLimit(m_num, global_limit, r_num, room_limit) ==
    Cardinality({id \in DOMAIN entities :
                    /\ entities[id].entity_type = "Mobile"
                    /\ entities[id].vnum = m_num
                    /\ entities[id].parent = room_vnum_to_id[r_num]}) >= room_limit

\* global_limit: _, room_limit: _ : the limits of a Mob command are not read
MobLimitReached(m_num, global_limit, r_num, room_limit) == FALSE

\* variant of SetEquipped: the instances of a vnum share their components
SetEquipped_Shared(es, object_id, location) ==
    [id \in DOMAIN es |->
        IF es[id].vnum = es[object_id].vnum /\ es[id].entity_type = "Object"
        THEN [es[id] EXCEPT !.equipped = Some(location)]
        ELSE es[id]]

\* object_entity.components().general.equipped = Some(location)
SetEquipped(es, object_id, location) ==
    [es EXCEPT ![object_id].equipped = Some(location)]

\* variant of PutContainers: the is_object() test left out
PutContainers_AnyKind(c_num) ==
    {id \in DOMAIN entities : entities[id].vnum = c_num}

\* the entities the Put loop can stop at: vnum == *c_num && is_object()
PutContainers(c_num) ==
    {id \in DOMAIN entities :
        entities[id].vnum = c_num /\ entities[id].entity_type = "Object"}

ResetUnchanged ==
    UNCHANGED <<world, pc, panic, i, leads_to, ew_landmarks, room_vnum_to_id,
                exit_leads_to, pending, vnum_templates, areas, objvars>>

\* for (_area_data, area_resets) in &world.areas: the next area's list begins
NextArea ==
    /\ pc = "resets"
    /\ Len(area_resets) < MaxAreas
    /\ area_resets' = Append(area_resets, <<>>)
    /\ last_mobile_id' = AreaCursor
    /\ UNCHANGED <<entities, spawned_by>>
    /\ ResetUnchanged

ResetMob(m_num, global_limit, r_num, room_limit) ==
    /\ CanRead
    /\ IF r_num \notin DOMAIN room_vnum_to_id THEN Abort("key not found")
       ELSE IF IsSome(MobileLookup(m_num).panic) THEN Abort(Unwrap(MobileLookup(m_num).panic))
       ELSE LET mobile_components == Unwrap(MobileLookup(m_num).value)
                mobile_entity_id == Len(entities) + 1
            IN  /\ area_resets' = Read([kind |-> "Mob", m_num |-> m_num,
                                        global_limit |-> global_limit, r_num |-> r_num,
                                        room_limit |-> room_limit])
                /\ IF MobLimitReached(m_num, global_limit, r_num, room_limit)
                   THEN UNCHANGED <<entities, last_mobile_id, spawned_by>>
                   ELSE /\ entities' =
                             insert_all(insert_entity(entities, room_vnum_to_id[r_num],
                                                      mobile_components[1]),
                                        mobile_entity_id, mobile_components[2])
                        /\ last_mobile_id' = Some(mobile_entity_id)
                        /\ spawned_by' = MapInsert(spawned_by, mobile_entity_id, Reading)
                /\ ResetUnchanged

ResetObject(o_num, global_limit, r_num) ==
    /\ CanRead
    /\ IF r_num \notin DOMAIN room_vnum_to_id THEN Abort("key not found")
       ELSE LET r == load_object(o_num, room_vnum_to_id[r_num], entities)
            IN  IF IsSome(r.panic) THEN Abort(Unwrap(r.panic))
                ELSE /\ area_resets' = Read([kind |-> "Object", o_num |-> o_num,
                                             global_limit |-> global_limit, r_num |-> r_num])
                     /\ entities' = r.entities
                     /\ spawned_by' = MapInsert(spawned_by, r.object_id, Reading)
                     /\ UNCHANGED last_mobile_id
                     /\ ResetUnchanged

ResetDoor ==
    /\ CanRead
    /\ area_resets' = Read([kind |-> "Door"])
    /\ UNCHANGED <<entities, last_mobile_id, spawned_by>>
    /\ ResetUnchanged

ResetGive(o_num, global_limit) ==
    /\ CanRead
    /\ IF ~IsSome(last_mobile_id) THEN Abort("called Option::unwrap() on a None value")
       ELSE LET r == load_object(o_num, Unwrap(last_mobile_id), entities)
            IN  IF IsSome(r.panic) THEN Abort(Unwrap(r.panic))
                ELSE /\ area_resets' = Read([kind |-> "Give", o_num |-> o_num,
                                             global_limit |-> global_limit])
                     /\ entities' = r.entities
                     /\ spawned_by' = MapInsert(spawned_by, r.object_id, Reading)
                     /\ UNCHANGED last_mobile_id
                     /\ ResetUnchanged

ResetEquip(o_num, global_limit, location) ==
    /\ CanRead
    /\ IF ~IsSome(last_mobile_id) THEN Abort("called Option::unwrap() on a None value")
       ELSE LET r == load_object(o_num, Unwrap(last_mobile_id), entities)
            IN  IF IsSome(r.panic) THEN Abort(Unwrap(r.panic))
                ELSE /\ area_resets' = Read([kind |-> "Equip", o_num |-> o_num,
                                             global_limit |-> global_limit,
                                             location |-> location])
                     /\ entities' = SetEquipped(r.entities, r.object_id, location)
                     /\ spawned_by' = MapInsert(spawned_by, r.object_id, Reading)
                     /\ UNCHANGED last_mobile_id
                     /\ ResetUnchanged

\* all_entities() is iterated in no particular order: the loop may stop at
\* any entity of PutContainers(c_num)
ResetPut(o_num, global_limit, c_num, container_limit) ==
    /\ CanRead
    /\ IF PutContainers(c_num) = {}
       THEN /\ area_resets' = Read([kind |-> "Put", o_num |-> o_num,
                                    global_limit |-> global_limit, c_num |-> c_num,
                                    container_limit |-> container_limit])
            /\ UNCHANGED <<entities, last_mobile_id, spawned_by>>
            /\ ResetUnchanged
       ELSE \E container_id \in PutContainers(c_num) :
            LET r == load_object(o_num, container_id, entities)
            IN  IF IsSome(r.panic) THEN Abort(Unwrap(r.panic))
                ELSE /\ area_resets' = Read([kind |-> "Put", o_num |-> o_num,
                                             global_limit |-> global_limit, c_num |-> c_num,
                                             container_limit |-> container_limit])
                     /\ entities' = r.entities
                     /\ spawned_by' = MapInsert(spawned_by, r.object_id, Reading)
                     /\ UNCHANGED last_mobile_id
                     /\ ResetUnchanged

\* the lists are read to their end: the Vec<Area> is built and returned
Finish ==
    /\ pc = "resets"
    /\ pc' = "done"
    /\ areas' = Some([a \in DOMAIN area_resets |-> [name |-> <<"area", DigitChar[a]>>]])
    /\ UNCHANGED <<world, panic, i, entities, leads_to, ew_landmarks, room_vnum_to_id,
                   exit_leads_to, pending, vnum_templates, area_resets, last_mobile_id,
                   spawned_by, objvars>>

Mob == \E m_num \in MobVnums, r_num \in ResetRooms, global_limit \in Limits, room_limit \in Limits :
          ResetMob(m_num, global_limit, r_num, room_limit)
Object == \E o_num \in ObjVnums, r_num \in ResetRooms, global_limit \in Limits :
             ResetObject(o_num, global_limit, r_num)
Door == ResetDoor
Give == \E o_num \in ObjVnums, global_limit \in Limits : ResetGive(o_num, global_limit)
Equip == \E o_num \in ObjVnums, global_limit \in Limits, location \in Locations :
            ResetEquip(o_num, global_limit, location)
Put == \E o_num \in ObjVnums, c_num \in ContainerVnums, global_limit \in Limits,
          container_limit \in Limits :
          ResetPut(o_num, global_limit, c_num, container_limit)

Next ==
    \/ RoomLoop
    \/ RoomLoopEnd
    \/ SetLeadsTo
    \/ SetLeadsToEnd
    \/ AddLandmark
    \/ AddLandmarkEnd
    \/ RoomTable
    \/ ObjectTable
    \/ MobileTable
    \/ MobprogTable
    \/ NextArea
    \/ Mob
    \/ Object
    \/ Door
    \/ Give
    \/ Equip
    \/ Put
    \/ Finish

Spec == Init /\ [][Next]_vars

\* ------------------------------------------------------------------ import_object_components alone
InitObject ==
    /\ world = None
    /\ pc = "object"
    /\ panic = None
    /\ i = 0
    /\ entities = <<>>
    /\ leads_to = EmptyMap
    /\ ew_landmarks = EmptyMap
    /\ room_vnum_to_id = EmptyMap
    /\ exit_leads_to = EmptyMap
    /\ pending = {}
    /\ vnum_templates = EmptyTemplates
    /\ area_resets = <<>>
    /\ last_mobile_id = None
    /\ spawned_by = EmptyMap
    /\ areas = None
    /\ object \in Objects
    /\ components = None

ImportObject ==
    /\ pc = "object"
    /\ components' = Some(import_object_components(object))
    /\ pc' = "object_done"
    /\ UNCHANGED <<world, panic, i, entities, leads_to, ew_landmarks, room_vnum_to_id,
                   exit_leads_to, pending, vnum_templates, area_resets, last_mobile_id,
                   spawned_by, areas, object>>

NextObject == ImportObject

SpecObject == InitObject /\ [][NextObject]_vars

\* ------------------------------------------------------------------ what the claims speak of
\* the commands read without a panic, as <<area, index>>
ReadCmds == {p \in (DOMAIN area_resets) \X (1..MaxCmds) : p[2] <= Len(area_resets[p[1]])}
CmdAt(p) == area_resets[p[1]][p[2]]

\* the entities command p spawned (its mobile or object, not their children)
SpawnedBy(p) == {e \in DOMAIN spawned_by : spawned_by[e] = p}

\* the Mob commands that precede index j in area a's list
MobsBefore(a, j) == {k \in 1..(j - 1) : area_resets[a][k].kind = "Mob"}

IsKind(id, kind) == entities[id].entity_type = kind

\* the vnums of the room records of the World
RoomVnums == {world.rooms[k].vnum : k \in DOMAIN world.rooms}
RoomEntities(vnum) == {id \in DOMAIN entities : IsKind(id, "Room") /\ entities[id].vnum = vnum}

\* the two parts of C1: the parent of the object spawned, the panic
C1_Parent ==
    \A p \in ReadCmds :
        CmdAt(p).kind \in {"Give", "Equip"} =>
            /\ MobsBefore(p[1], p[2]) # {}
            /\ \E e \in SpawnedBy(p) :
                /\ SpawnedBy(p) = {e}
                /\ IsKind(e, "Object")
                /\ SpawnedBy(<<p[1], SetMax(MobsBefore(p[1], p[2]))>>) = {entities[e].parent}

C1_Aborts ==
    (/\ pc = "resets"
     /\ area_resets # <<>>
     /\ MobsBefore(Len(area_resets), Len(area_resets[Len(area_resets)]) + 1) = {}
     /\ \/ \E o_num \in ObjVnums, g \in Limits : ResetGive(o_num, g)
        \/ \E o_num \in ObjVnums, g \in Limits, l \in Locations : ResetEquip(o_num, g, l))
    => pc' = "aborted"

\* C1: every give or equip command that was run without a panic has spawned
\* one object, a child of the mobile spawned by the latest Mob command that
\* precedes it in its own area's list; so one that no Mob command precedes in
\* its area's list is never run without a panic, and a step that runs one
\* while no Mob command of the running area was read ends in the panic.
C1_GiveEquipUnderLatestMobile == [](C1_Parent) /\ [][C1_Aborts]_vars

\* C1 witness: a give or equip has spawned under the second mobile of its area
C1_Witness ==
    \E p \in ReadCmds :
        /\ CmdAt(p).kind \in {"Give", "Equip"}
        /\ Cardinality(MobsBefore(p[1], p[2])) >= 2
        /\ SpawnedBy(p) # {}

\* the table has a populated entry for the vnum
HasTemplate(table, vnum) == InBounds(table, vnum) /\ IsSome(At(table, vnum))

\* C2 (as claimed): no reset command with a nonzero vnum that has no populated
\* template entry is run without a panic.
C2_NoCommandWithoutTemplate ==
    \A p \in ReadCmds :
        /\ (CmdAt(p).kind = "Mob" /\ CmdAt(p).m_num # 0)
              => HasTemplate(vnum_templates.mobile_components, CmdAt(p).m_num)
        /\ (CmdAt(p).kind \in {"Object", "Give", "Equip", "Put"} /\ CmdAt(p).o_num # 0)
              => HasTemplate(vnum_templates.object_components, CmdAt(p).o_num)

\* no object entity has the vnum; what C3 says of one step
NoObjectWithVnum(c_num) ==
    ~\E id \in DOMAIN entities : IsKind(id, "Object") /\ entities[id].vnum = c_num

C3_Step ==
    \A o_num \in ObjVnums, c_num \in ContainerVnums, g \in Limits, l \in Limits :
        (NoObjectWithVnum(c_num) /\ ResetPut(o_num, g, c_num, l)) =>
            /\ entities' = entities
            /\ last_mobile_id' = last_mobile_id
            /\ spawned_by' = spawned_by
            /\ pc' = "resets" /\ panic' = None
            /\ Len(area_resets') = Len(area_resets)

\* C3: a step that runs a put command while no object entity has the
\* container vnum leaves the entities and the cursor as they were, does not
\* panic, and leaves the interpreter reading the same area's list.
C3_PutWithoutContainerIsNoOp == [][C3_Step]_vars

\* C3 witness: a put command was run, no object has its container vnum but a
\* mobile has, and the cursor is set
C3_Witness ==
    /\ pc = "resets"
    /\ IsSome(last_mobile_id)
    /\ \E p \in ReadCmds :
        /\ CmdAt(p).kind = "Put"
        /\ p[2] = Len(area_resets[p[1]]) /\ p[1] = Len(area_resets)
        /\ NoObjectWithVnum(CmdAt(p).c_num)
        /\ \E id \in DOMAIN entities : IsKind(id, "Mobile") /\ entities[id].vnum = CmdAt(p).c_num

\* the exit entities, and the destination vnum of the exit record of each:
\* the k-th room entity is that of the k-th room record, and its exits follow
\* it in the order of the record's exits
Exits == {id \in DOMAIN entities : IsKind(id, "Exit")}
ExitDest(e) ==
    LET room_id == entities[e].parent
        k == Cardinality({id \in 1..room_id : IsKind(id, "Room")})
    IN  world.rooms[k].exits[e - room_id].vnum

\* what C4 says of a state
C4_Resolved ==
    pc \notin {"rooms", "leads_to"} =>
        \A e \in Exits :
            IF ExitDest(e) \in RoomVnums
            THEN e \in DOMAIN leads_to /\ leads_to[e] \in RoomEntities(ExitDest(e))
            ELSE e \notin DOMAIN leads_to

\* C4: once the leads-to pass is over, an exit whose destination vnum is the
\* vnum of a room record leads to a room entity of that vnum, and an exit
\* whose destination vnum is no room record's has no leads-to relation; the
\* pass itself never panics.
C4_ExitsResolved == [](C4_Resolved) /\ [][pc = "leads_to" => pc' # "aborted"]_vars

\* C4 witness: past the pass, one exit leads to a room and another is dangling
C4_Witness ==
    /\ pc = "landmarks"
    /\ \E e1, e2 \in Exits :
        /\ ExitDest(e1) \in RoomVnums \ {0}
        /\ ExitDest(e2) \notin RoomVnums
        /\ e1 \in DOMAIN leads_to

\* what C5 says of a state, and of a step
C5_Rooms ==
    \A v \in RoomVnums \ {0} :
        /\ Cardinality(RoomEntities(v)) <= 1
        /\ \A id \in RoomEntities(v) : entities[id].parent = world_entity_id
        /\ v \in DOMAIN room_vnum_to_id => RoomEntities(v) = {room_vnum_to_id[v]}
        /\ pc = "done" =>
            /\ v \in DOMAIN room_vnum_to_id
            /\ At(vnum_templates.vnum_to_room_entity, v)
                 = Some(permanent_entity_id(room_vnum_to_id[v]))

C5_Recorded ==
    \A v \in (DOMAIN room_vnum_to_id) \ {0} :
        v \in DOMAIN room_vnum_to_id' /\ room_vnum_to_id'[v] = room_vnum_to_id[v]

\* C5: a nonzero vnum of a room record never has more than one room entity,
\* that entity is a child of the world entity, the id recorded against the
\* vnum is that entity's and is never replaced by another; after the import
\* the entity exists and vnum_to_room_entity holds its permanent id.
C5_OneRoomPerVnum == [](C5_Rooms) /\ [][C5_Recorded]_vars

\* C5 witness: the import is over and reset commands have spawned entities
C5_Witness ==
    /\ pc = "done"
    /\ DOMAIN spawned_by # {}
    /\ \E v \in RoomVnums \ {0} : \E id \in RoomEntities(v) :
          \E e \in DOMAIN entities : entities[e].parent = id /\ IsKind(e, "Exit")

\* C6 (as claimed): when the import has aborted the EntityWorld holds no
\* entity, no leads-to relation and no landmark of the run.
C6_NothingCommitted ==
    pc = "aborted" =>
        /\ entities = <<>>
        /\ leads_to = EmptyMap
        /\ ew_landmarks = EmptyMap

\* C7 (as claimed): after the import, entry 0 of each of the four tables is
\* unpopulated and no room entity has vnum 0.
C7_VnumZeroUnused ==
    pc = "done" =>
        /\ \A t \in {vnum_templates.vnum_to_room_entity, vnum_templates.vnum_to_mobprog,
                     vnum_templates.object_components, vnum_templates.mobile_components} :
              InBounds(t, 0) => ~IsSome(At(t, 0))
        /\ RoomEntities(0) = {}

\* no bundle of the table has an equip slot
TemplatesUnequipped(table) ==
    \A k \in DOMAIN table :
        IsSome(table[k]) =>
            /\ Unwrap(table[k])[1].equipped = None
            /\ \A c \in DOMAIN Unwrap(table[k])[2] : Unwrap(table[k])[2][c].equipped = None

\* C8: the object an equip command spawned carries the command's location as
\* its equip slot; no other entity has an equip slot, whatever ran before or
\* after (the object of a give command, of any other command, a child), and
\* no template has one.
C8_EquipSlot ==
    /\ \A p \in ReadCmds :
          /\ CmdAt(p).kind = "Equip" =>
                \E e \in SpawnedBy(p) :
                    /\ IsKind(e, "Object") /\ entities[e].vnum = CmdAt(p).o_num
                    /\ entities[e].equipped = Some(CmdAt(p).location)
          /\ CmdAt(p).kind = "Give" =>
                \E e \in SpawnedBy(p) :
                    /\ IsKind(e, "Object") /\ entities[e].vnum = CmdAt(p).o_num
                    /\ entities[e].equipped = None
    /\ \A id \in DOMAIN entities :
          IsSome(entities[id].equipped) =>
              \E p \in ReadCmds : CmdAt(p).kind = "Equip" /\ id \in SpawnedBy(p)
    /\ TemplatesUnequipped(vnum_templates.object_components)
    /\ TemplatesUnequipped(vnum_templates.mobile_components)

\* C8 witness: a give command ran after an equip command for the same vnum
C8_Witness ==
    \E p, q \in ReadCmds :
        /\ CmdAt(p).kind = "Equip" /\ CmdAt(q).kind = "Give"
        /\ CmdAt(p).o_num = CmdAt(q).o_num
        /\ p[1] = q[1] /\ p[2] < q[2]
        /\ SpawnedBy(q) # {}

\* the mobiles an area put under a room, and its Mob commands for them
MobilesOf(a, r_num, m_num) ==
    {e \in DOMAIN spawned_by :
        /\ spawned_by[e][1] = a
        /\ IsKind(e, "Mobile") /\ entities[e].vnum = m_num
        /\ entities[e].parent \in RoomEntities(r_num)}
MobCmdsOf(a, r_num, m_num) ==
    {j \in DOMAIN area_resets[a] :
        /\ area_resets[a][j].kind = "Mob"
        /\ area_resets[a][j].m_num = m_num /\ area_resets[a][j].r_num = r_num}

Matching == {k \in DOMAIN object.extra_descriptions :
                keywords_match(object, object.extra_descriptions[k])}
SetMin(S) == CHOOSE x \in S : \A y \in S : x <= y
\* the subsequence of s at the indices other than k
Without(s, k) == [j \in 1..(Len(s) - 1) |-> IF j < k THEN s[j] ELSE s[j + 1]]

\* C10 (as claimed): the first extra description whose keywords all are
\* keywords of the object gives the external description and no child, and
\* every other extra description gives a child, in order; when none matches
\* the external description is the object's description.
C10_FirstMatchWins ==
    pc = "object_done" =>
        LET external == Unwrap(components)[1].external
            children == Unwrap(components)[2]
            want == IF Matching = {} THEN object.extra_descriptions
                    ELSE Without(object.extra_descriptions, SetMin(Matching))
        IN  /\ external = IF Matching = {} THEN object.description
                          ELSE object.extra_descriptions[SetMin(Matching)].description
            /\ Len(children) = Len(want)
            /\ \A k \in DOMAIN want :
                  /\ children[k].keyword = want[k].keyword
                  /\ children[k].external = want[k].description

\* the landmarks as C11 names them, with the vnums 1, 2, 3000, 7371, 23611,
\* 27003 renumbered 1..6 as in landmarks: mekali is the room of vnum 3000
ClaimedLandmarks ==
    {<<"gnomehill", 5>>, <<"mekali", 3>>, <<"dzagari", 6>>,
     <<"mudschool", 4>>, <<"void", 1>>, <<"limbo", 2>>}
LandmarkMissing == \E l \in ClaimedLandmarks : l[2] \notin RoomVnums

\* what C11 says of a state, and of a step of the landmark loop
C11_State ==
    /\ LandmarkMissing =>
          /\ pc \in {"rooms", "leads_to", "landmarks", "aborted"}
          /\ area_resets = <<>> /\ DOMAIN spawned_by = {}
          /\ pc = "aborted" => panic = Some("GnomeHill landmark room not found.")
    /\ pc = "done" =>
          /\ DOMAIN ew_landmarks = {l[1] : l \in ClaimedLandmarks}
          /\ \A l \in ClaimedLandmarks : RoomEntities(l[2]) = {ew_landmarks[l[1]]}

C11_Step ==
    (/\ pc = "landmarks"
     /\ \E l \in ClaimedLandmarks : l[1] \notin DOMAIN ew_landmarks /\ l[2] \notin RoomVnums
     /\ \A l \in ClaimedLandmarks : l[2] \in RoomVnums => l[1] \in DOMAIN ew_landmarks)
    => pc' = "aborted"

\* C11: in a world where a landmark vnum has no room the import never gets
\* past the landmark loop, so no reset command is run, and it panics there;
\* after a completed import every landmark name is registered to the room
\* entity of its vnum.
C11_Landmarks == [](C11_State) /\ [][C11_Step]_vars

\* C11 witness: the import panicked at a landmark without a room, after it
\* had registered another landmark and before any reset command
C11_Witness ==
    /\ pc = "aborted"
    /\ panic = Some("GnomeHill landmark room not found.")
    /\ DOMAIN ew_landmarks # {}
    /\ entities # <<>>
    /\ area_resets = <<>>

\* the object entities with the vnum, instantiated so far
ObjectsWithVnum(c_num) ==
    {id \in DOMAIN entities : IsKind(id, "Object") /\ entities[id].vnum = c_num}

\* the step has created one object of vnum o_num under an object of vnum
\* c_num, then extras extra descriptions under the new object, and no more
C12_Created(o_num, c_num, extras) ==
    LET object_id == Len(entities) + 1
    IN  /\ Len(entities') = Len(entities) + 1 + extras
        /\ SubSeq(entities', 1, Len(entities)) = entities
        /\ entities'[object_id].entity_type = "Object"
        /\ entities'[object_id].vnum = o_num
        /\ entities'[object_id].parent \in ObjectsWithVnum(c_num)
        /\ \A id \in (object_id + 1)..Len(entities') :
              /\ entities'[id].entity_type = "ExtraDescription"
              /\ entities'[id].parent = object_id
        /\ pc' = "resets" /\ panic' = None

\* the extra descriptions of the template of o_num, 0 without a template
C12_Extras(o_num) ==
    IF HasTemplate(vnum_templates.object_components, o_num)
    THEN Len(Unwrap(At(vnum_templates.object_components, o_num))[2])
    ELSE 0

C12_StepClaimed ==
    \A o_num \in ObjVnums, c_num \in ContainerVnums, g \in Limits, l \in Limits :
        (ObjectsWithVnum(c_num) # {} /\ ResetPut(o_num, g, c_num, l)) =>
            C12_Created(o_num, c_num, C12_Extras(o_num))

C12_StepAmended ==
    \A o_num \in ObjVnums, c_num \in ContainerVnums, g \in Limits, l \in Limits :
        (ObjectsWithVnum(c_num) # {} /\ ResetPut(o_num, g, c_num, l)) =>
            IF HasTemplate(vnum_templates.object_components, o_num)
            THEN C12_Created(o_num, c_num, C12_Extras(o_num))
            ELSE /\ pc' = "aborted" /\ panic' # None
                 /\ entities' = entities

\* C12 (as claimed): every step that runs a put command while an object
\* entity has its container vnum creates exactly one object, with its extra
\* descriptions, under an object entity of that vnum.
C12_PutCreatesOne == [][C12_StepClaimed]_vars

\* C12: a step that runs a put command while an object entity has its
\* container vnum creates, when the object vnum has a populated template,
\* exactly one object with its extra descriptions under an object entity of
\* the container vnum, never under an entity of another kind with that
\* vnum; when the object vnum has no populated template the step panics and
\* creates nothing.
C12_PutUnderObjectContainer == [][C12_StepAmended]_vars

\* C12 witness: a put command has placed its object, which has an extra
\* description, in a container an earlier area's list spawned, while a
\* mobile and a room carry the container's vnum
C12_Witness ==
    \E p \in ReadCmds :
        /\ CmdAt(p).kind = "Put"
        /\ \E e \in SpawnedBy(p) :
              /\ IsKind(entities[e].parent, "Object")
              /\ entities[entities[e].parent].vnum = CmdAt(p).c_num
              /\ spawned_by[entities[e].parent][1] < p[1]
              /\ \E x \in DOMAIN entities :
                    IsKind(x, "ExtraDescription") /\ entities[x].parent = e
        /\ \E m \in DOMAIN entities :
              IsKind(m, "Mobile") /\ entities[m].vnum = CmdAt(p).c_num
        /\ RoomEntities(CmdAt(p).c_num) # {}

====
